---- MODULE Spec2Model ----
(***************************************************************************)
(* State-machine model of the SimpleToken ink! contract (src/lib.rs).      *)
(* Every public message is one action.  A message is modelled by an        *)
(* operator that threads the storage through the statements of its body in *)
(* source order, so a write made before a later `?` early return is part   *)
(* of the storage the message leaves behind.  The contract has no rollback *)
(* code of its own.                                                        *)
(***************************************************************************)
EXTENDS Integers, Sequences, FiniteSets, TLC

\* ---------------------------------------------------------------- bounds
\* Largest value of the unsigned balance type (u128::MAX scaled down).
U128_MAX == 1
\* Number of messages in a run.
MaxCalls == 3
\* Longest recipients / amounts vector passed to batch_transfer in runs that
\* mix all messages (Spec).
MaxShortBatch == 1
\* Longest recipients / amounts vector in runs about batches (SpecBatch).
MaxBatch == 2
\* Number of messages in a run about the supply (SpecSupply).
MaxSupplyCalls == 4

Accounts == {"alice", "bob", "charlie"}
\* The account that calls the constructor.
Deployer == "alice"
Amounts == 0..U128_MAX

VARIABLES balances, allowances, owner, total_supply, paused, blacklist, calls

vars == <<balances, allowances, owner, total_supply, paused, blacklist, calls>>

\* The storage struct as one value.
SimpleToken ==
  [balances |-> balances, allowances |-> allowances, owner |-> owner,
   total_supply |-> total_supply, paused |-> paused, blacklist |-> blacklist]

\* ------------------------------------------------------- checked arithmetic
checked_add(a, b) ==
  IF a + b <= U128_MAX THEN [some |-> TRUE, val |-> a + b]
                       ELSE [some |-> FALSE, val |-> 0]

checked_sub(a, b) ==
  IF a - b >= 0 THEN [some |-> TRUE, val |-> a - b]
                ELSE [some |-> FALSE, val |-> 0]

\* ------------------------------------------------------------- read access
balance_of(s, account) == s.balances[account]

allowance(s, own, spender) == s.allowances[<<own, spender>>]

is_blacklisted(s, account) == s.blacklist[account]

\* Result of a message: the storage it leaves, its return value, and (for
\* batch_transfer) the number of pairs completed before it returned.
Ret(s, r) == [st |-> s, res |-> r, done |-> 0]

\* ------------------------------------------------------- transfer primitive
\* Variants of the messages with one plausible slip each.
\* The blacklist check placed before the self-transfer check.
transfer_from_to_blacklist_first(s, from, to, amount) ==
  IF s.paused THEN Ret(s, "Paused")
  ELSE IF is_blacklisted(s, from) \/ is_blacklisted(s, to)
    THEN Ret(s, "Blacklisted")
  ELSE IF from = to THEN Ret(s, "SelfTransfer")
  ELSE
    LET from_balance == balance_of(s, from) IN
    IF from_balance < amount THEN Ret(s, "InsufficientBalance")
    ELSE
      LET s1 == [s EXCEPT !.balances[from] = from_balance - amount]
          new_to_balance == checked_add(balance_of(s1, to), amount)
      IN IF ~new_to_balance.some THEN Ret(s1, "Overflow")
         ELSE Ret([s1 EXCEPT !.balances[to] = new_to_balance.val], "Ok")

\* The pause check left out.
transfer_from_to_no_pause(s, from, to, amount) ==
  IF from = to THEN Ret(s, "SelfTransfer")
  ELSE IF is_blacklisted(s, from) \/ is_blacklisted(s, to)
    THEN Ret(s, "Blacklisted")
  ELSE
    LET from_balance == balance_of(s, from) IN
    IF from_balance < amount THEN Ret(s, "InsufficientBalance")
    ELSE
      LET s1 == [s EXCEPT !.balances[from] = from_balance - amount]
          new_to_balance == checked_add(balance_of(s1, to), amount)
      IN IF ~new_to_balance.some THEN Ret(s1, "Overflow")
         ELSE Ret([s1 EXCEPT !.balances[to] = new_to_balance.val], "Ok")

\* The blacklist checked on the sender only.
transfer_from_to_sender_only(s, from, to, amount) ==
  IF s.paused THEN Ret(s, "Paused")
  ELSE IF from = to THEN Ret(s, "SelfTransfer")
  ELSE IF is_blacklisted(s, from) THEN Ret(s, "Blacklisted")
  ELSE
    LET from_balance == balance_of(s, from) IN
    IF from_balance < amount THEN Ret(s, "InsufficientBalance")
    ELSE
      LET s1 == [s EXCEPT !.balances[from] = from_balance - amount]
          new_to_balance == checked_add(balance_of(s1, to), amount)
      IN IF ~new_to_balance.some THEN Ret(s1, "Overflow")
         ELSE Ret([s1 EXCEPT !.balances[to] = new_to_balance.val], "Ok")

\* The recipient's balance never credited.
transfer_from_to_no_credit(s, from, to, amount) ==
  IF s.paused THEN Ret(s, "Paused")
  ELSE IF from = to THEN Ret(s, "SelfTransfer")
  ELSE IF is_blacklisted(s, from) \/ is_blacklisted(s, to)
    THEN Ret(s, "Blacklisted")
  ELSE
    LET from_balance == balance_of(s, from) IN
    IF from_balance < amount THEN Ret(s, "InsufficientBalance")
    ELSE Ret([s EXCEPT !.balances[from] = from_balance - amount], "Ok")

transfer_from_to(s, from, to, amount) ==
  IF s.paused THEN Ret(s, "Paused")
  ELSE IF from = to THEN Ret(s, "SelfTransfer")
  ELSE IF is_blacklisted(s, from) \/ is_blacklisted(s, to)
    THEN Ret(s, "Blacklisted")
  ELSE
    LET from_balance == balance_of(s, from) IN
    IF from_balance < amount THEN Ret(s, "InsufficientBalance")
    ELSE
      LET new_from_balance == checked_sub(from_balance, amount) IN
      IF ~new_from_balance.some THEN Ret(s, "Overflow")
      ELSE
        LET s1 == [s EXCEPT !.balances[from] = new_from_balance.val]
            to_balance == balance_of(s1, to)
            new_to_balance == checked_add(to_balance, amount)
        IN IF ~new_to_balance.some THEN Ret(s1, "Overflow")
           ELSE Ret([s1 EXCEPT !.balances[to] = new_to_balance.val], "Ok")

\* ------------------------------------------------------------------ messages
mint(s, caller, to, amount) ==
  IF caller # s.owner THEN Ret(s, "NotOwner")
  ELSE IF is_blacklisted(s, to) THEN Ret(s, "Blacklisted")
  ELSE
    LET current_balance == balance_of(s, to)
        new_balance == checked_add(current_balance, amount)
    IN IF ~new_balance.some THEN Ret(s, "Overflow")
       ELSE
         LET s1 == [s EXCEPT !.balances[to] = new_balance.val]
             new_supply == checked_add(s1.total_supply, amount)
         IN IF ~new_supply.some THEN Ret(s1, "Overflow")
            ELSE Ret([s1 EXCEPT !.total_supply = new_supply.val], "Ok")

burn(s, caller, amount) ==
  LET balance == balance_of(s, caller) IN
  IF balance < amount THEN Ret(s, "InsufficientBalance")
  ELSE
    LET new_balance == checked_sub(balance, amount) IN
    IF ~new_balance.some THEN Ret(s, "Overflow")
    ELSE
      LET s1 == [s EXCEPT !.balances[caller] = new_balance.val]
          new_supply == checked_sub(s1.total_supply, amount)
      IN IF ~new_supply.some THEN Ret(s1, "Overflow")
         ELSE Ret([s1 EXCEPT !.total_supply = new_supply.val], "Ok")

transfer(s, caller, to, amount) == transfer_from_to(s, caller, to, amount)

\* approve that adds to the allowance instead of overwriting it.
approve_incremental(s, caller, spender, amount) ==
  Ret([s EXCEPT !.allowances[<<caller, spender>>] = @ + amount], "Ok")

approve(s, caller, spender, amount) ==
  Ret([s EXCEPT !.allowances[<<caller, spender>>] = amount], "Ok")

\* transfer_from that writes the lowered allowance under the swapped key.
transfer_from_swapped_key(s, caller, from, to, amount) ==
  LET allowance_ == allowance(s, from, caller) IN
  IF allowance_ < amount THEN Ret(s, "InsufficientAllowance")
  ELSE
    LET r == transfer_from_to(s, from, to, amount) IN
    IF r.res # "Ok" THEN r
    ELSE Ret([r.st EXCEPT !.allowances[<<caller, from>>] = allowance_ - amount],
             "Ok")

\* transfer_from that forgets to write the lowered allowance.
transfer_from_keep_allowance(s, caller, from, to, amount) ==
  LET allowance_ == allowance(s, from, caller) IN
  IF allowance_ < amount THEN Ret(s, "InsufficientAllowance")
  ELSE transfer_from_to(s, from, to, amount)

\* transfer_from that refuses a blacklisted caller.
transfer_from_caller_blacklist(s, caller, from, to, amount) ==
  LET allowance_ == allowance(s, from, caller) IN
  IF is_blacklisted(s, caller) THEN Ret(s, "Blacklisted")
  ELSE IF allowance_ < amount THEN Ret(s, "InsufficientAllowance")
  ELSE
    LET r == transfer_from_to(s, from, to, amount) IN
    IF r.res # "Ok" THEN r
    ELSE Ret([r.st EXCEPT !.allowances[<<from, caller>>] = allowance_ - amount],
             "Ok")

transfer_from(s, caller, from, to, amount) ==
  LET allowance_ == allowance(s, from, caller) IN
  IF allowance_ < amount THEN Ret(s, "InsufficientAllowance")
  ELSE
    LET r == transfer_from_to(s, from, to, amount) IN
    IF r.res # "Ok" THEN r
    ELSE
      LET new_allowance == checked_sub(allowance_, amount) IN
      IF ~new_allowance.some THEN Ret(r.st, "Overflow")
      ELSE Ret([r.st EXCEPT !.allowances[<<from, caller>>] = new_allowance.val],
               "Ok")

\* Length of recipients.iter().zip(amounts.iter()).
ZipLen(recipients, amounts) ==
  IF Len(recipients) <= Len(amounts) THEN Len(recipients) ELSE Len(amounts)

\* The for loop of batch_transfer from pair i on.
RECURSIVE batch_loop(_, _, _, _, _)
batch_loop(s, caller, recipients, amounts, i) ==
  IF i > ZipLen(recipients, amounts) THEN [st |-> s, res |-> "Ok", done |-> i - 1]
  ELSE
    LET r == transfer_from_to(s, caller, recipients[i], amounts[i]) IN
    IF r.res # "Ok" THEN [st |-> r.st, res |-> r.res, done |-> i - 1]
    ELSE batch_loop(r.st, caller, recipients, amounts, i + 1)

\* batch_transfer without the length check: zip stops at the shorter vector.
batch_transfer_no_length_check(s, caller, recipients, amounts) ==
  batch_loop(s, caller, recipients, amounts, 1)

\* batch_transfer that handles the first pair only.
batch_transfer_first_pair_only(s, caller, recipients, amounts) ==
  IF Len(recipients) # Len(amounts) THEN Ret(s, "BatchLengthMismatch")
  ELSE IF Len(recipients) = 0 THEN Ret(s, "Ok")
  ELSE batch_loop(s, caller, <<recipients[1]>>, <<amounts[1]>>, 1)

batch_transfer(s, caller, recipients, amounts) ==
  IF Len(recipients) # Len(amounts) THEN Ret(s, "BatchLengthMismatch")
  ELSE batch_loop(s, caller, recipients, amounts, 1)

\* pause without the owner check.
pause_no_owner_check(s, caller) == Ret([s EXCEPT !.paused = TRUE], "Ok")

pause(s, caller) ==
  IF caller # s.owner THEN Ret(s, "NotOwner")
  ELSE Ret([s EXCEPT !.paused = TRUE], "Ok")

\* unpause that leaves the flag set.
unpause_keeps_flag(s, caller) ==
  IF caller # s.owner THEN Ret(s, "NotOwner")
  ELSE Ret(s, "Ok")

unpause(s, caller) ==
  IF caller # s.owner THEN Ret(s, "NotOwner")
  ELSE Ret([s EXCEPT !.paused = FALSE], "Ok")

set_blacklist(s, caller, account, blacklisted) ==
  IF caller # s.owner THEN Ret(s, "NotOwner")
  ELSE Ret([s EXCEPT !.blacklist[account] = blacklisted], "Ok")

\* --------------------------------------------------------------- the machine
\* State after the constructor.
Init ==
  /\ owner = Deployer
  /\ balances = [a \in Accounts |-> 0]
  /\ allowances = [p \in Accounts \X Accounts |-> 0]
  /\ total_supply = 0
  /\ paused = FALSE
  /\ blacklist = [a \in Accounts |-> FALSE]
  /\ calls = 0

\* One message call in a run of at most n calls: the storage becomes what the
\* message left behind.
CallWithin(r, n) ==
  /\ calls < n
  /\ calls' = calls + 1
  /\ balances' = r.st.balances
  /\ allowances' = r.st.allowances
  /\ owner' = r.st.owner
  /\ total_supply' = r.st.total_supply
  /\ paused' = r.st.paused
  /\ blacklist' = r.st.blacklist

Call(r) == CallWithin(r, MaxCalls)

SeqsUpTo(S, n) == UNION {[1..k -> S] : k \in 0..n}

\* Argument vectors of batch_transfer.
Recipients == SeqsUpTo(Accounts, MaxBatch)
AmountVecs == SeqsUpTo(Amounts, MaxBatch)
ShortRecipients == SeqsUpTo(Accounts, MaxShortBatch)
ShortAmountVecs == SeqsUpTo(Amounts, MaxShortBatch)

Mint ==
  \E caller \in Accounts, to \in Accounts, amount \in Amounts :
    Call(mint(SimpleToken, caller, to, amount))

Burn ==
  \E caller \in Accounts, amount \in Amounts :
    Call(burn(SimpleToken, caller, amount))

Transfer ==
  \E caller \in Accounts, to \in Accounts, amount \in Amounts :
    Call(transfer(SimpleToken, caller, to, amount))

Approve ==
  \E caller \in Accounts, spender \in Accounts, amount \in Amounts :
    Call(approve(SimpleToken, caller, spender, amount))

TransferFrom ==
  \E caller \in Accounts, from \in Accounts, to \in Accounts, amount \in Amounts :
    Call(transfer_from(SimpleToken, caller, from, to, amount))

BatchTransfer ==
  \E caller \in Accounts, recipients \in ShortRecipients,
     amounts \in ShortAmountVecs :
    Call(batch_transfer(SimpleToken, caller, recipients, amounts))

LongBatchTransfer ==
  \E caller \in Accounts, recipients \in Recipients, amounts \in AmountVecs :
    Call(batch_transfer(SimpleToken, caller, recipients, amounts))

Pause ==
  \E caller \in Accounts : Call(pause(SimpleToken, caller))

Unpause ==
  \E caller \in Accounts : Call(unpause(SimpleToken, caller))

SetBlacklist ==
  \E caller \in Accounts, account \in Accounts, blacklisted \in BOOLEAN :
    Call(set_blacklist(SimpleToken, caller, account, blacklisted))

Next ==
  \/ Mint
  \/ Burn
  \/ Transfer
  \/ Approve
  \/ TransferFrom
  \/ BatchTransfer
  \/ Pause
  \/ Unpause
  \/ SetBlacklist

Spec == Init /\ [][Next]_vars

\* Runs about batches: the messages that act on balances, the pause flag and
\* the blacklist, and batch_transfer with longer vectors.
NextBatch ==
  \/ Mint
  \/ Burn
  \/ Transfer
  \/ Pause
  \/ Unpause
  \/ SetBlacklist
  \/ LongBatchTransfer

SpecBatch == Init /\ [][NextBatch]_vars

\* Runs about the supply: longer runs of the messages that write
\* total_supply, the pause flag and the blacklist.
SupplyMint ==
  \E caller \in Accounts, to \in Accounts, amount \in Amounts :
    CallWithin(mint(SimpleToken, caller, to, amount), MaxSupplyCalls)

SupplyBurn ==
  \E caller \in Accounts, amount \in Amounts :
    CallWithin(burn(SimpleToken, caller, amount), MaxSupplyCalls)

SupplyPause ==
  \E caller \in Accounts :
    CallWithin(pause(SimpleToken, caller), MaxSupplyCalls)

SupplyUnpause ==
  \E caller \in Accounts :
    CallWithin(unpause(SimpleToken, caller), MaxSupplyCalls)

SupplySetBlacklist ==
  \E caller \in Accounts, account \in Accounts, blacklisted \in BOOLEAN :
    CallWithin(set_blacklist(SimpleToken, caller, account, blacklisted),
               MaxSupplyCalls)

NextSupply ==
  \/ SupplyMint
  \/ SupplyBurn
  \/ SupplyPause
  \/ SupplyUnpause
  \/ SupplySetBlacklist

SpecSupply == Init /\ [][NextSupply]_vars

\* ------------------------------------------------------------------ helpers
RECURSIVE SumOver(_, _)
SumOver(f, S) ==
  IF S = {} THEN 0
  ELSE LET x == CHOOSE y \in S : TRUE IN f[x] + SumOver(f, S \ {x})

\* A message returned Err(_).
IsErr(r) == r.res # "Ok"

\* ------------------------------------------------------------------- claims
\* Each property below is stated over the storage of a reachable state and
\* the result of applying a message to it with every caller and argument.

\* C1: total_supply equals the sum of all account balances in every
\* reachable state.
C1_SupplyConservation == total_supply = SumOver(balances, Accounts)

\* C2: a mint call that returns an error has written nothing: every balance
\* and total_supply are as before the call.
C2_MintErrorNoWrite ==
  \A caller \in Accounts, to \in Accounts, amount \in Amounts :
    LET r == mint(SimpleToken, caller, to, amount) IN
    IsErr(r) => /\ r.st.balances = balances
                /\ r.st.total_supply = total_supply

\* C3: a single step of the transfer primitive that returns an error leaves
\* the sender's and the recipient's balance unchanged.
C3_TransferStepErrorNoWrite ==
  \A from \in Accounts, to \in Accounts, amount \in Amounts :
    LET r == transfer_from_to(SimpleToken, from, to, amount) IN
    IsErr(r) => /\ r.st.balances[from] = balances[from]
                /\ r.st.balances[to] = balances[to]

C5_BatchErrorNoEffect ==
  \A caller \in Accounts, recipients \in Recipients, amounts \in AmountVecs :
    LET r == batch_transfer(SimpleToken, caller, recipients, amounts) IN
    (IsErr(r) /\ r.done >= 1) => r.st.balances = balances

\* C6: batch_transfer with vectors of different lengths fails with
\* BatchLengthMismatch and changes nothing, whatever the pause flag, the
\* blacklist and the caller's balance.
C6_BatchLengthMismatch ==
  \A caller \in Accounts, recipients \in Recipients, amounts \in AmountVecs :
    Len(recipients) # Len(amounts) =>
      LET r == batch_transfer(SimpleToken, caller, recipients, amounts) IN
      /\ r.res = "BatchLengthMismatch"
      /\ r.st = SimpleToken

\* A paused ledger and a blacklisted caller without balance naming itself as
\* the only recipient, with no amount: the length check still answers first.
C6_Witness ==
  /\ calls < MaxCalls
  /\ paused
  /\ \E c \in Accounts :
       /\ blacklist[c]
       /\ balances[c] = 0
       /\ batch_transfer(SimpleToken, c, <<c>>, <<>>).res = "BatchLengthMismatch"

\* C7: a successful transfer_from(from, to, amount) by spender c lowers
\* allowance[(from, c)] and balance[from] by amount, raises balance[to] by
\* amount, and leaves everything else as it was.
C7_TransferFromEffect ==
  \A c \in Accounts, from \in Accounts, to \in Accounts, amount \in Amounts :
    LET r == transfer_from(SimpleToken, c, from, to, amount) IN
    r.res = "Ok" =>
      /\ r.st.allowances =
           [allowances EXCEPT ![<<from, c>>] = allowances[<<from, c>>] - amount]
      /\ r.st.balances =
           [a \in Accounts |->
              IF a = from THEN balances[a] - amount
              ELSE IF a = to THEN balances[a] + amount
              ELSE balances[a]]
      /\ from # to
      /\ r.st.total_supply = total_supply
      /\ r.st.owner = owner
      /\ r.st.paused = paused
      /\ r.st.blacklist = blacklist

\* A spender that is neither endpoint moves a positive amount.
C7_Witness ==
  /\ calls < MaxCalls
  /\ \E c \in Accounts, from \in Accounts, to \in Accounts, amount \in Amounts :
       /\ amount > 0
       /\ c # from /\ c # to
       /\ transfer_from(SimpleToken, c, from, to, amount).res = "Ok"

\* C8: a transfer_from call that returns an error changes nothing: all
\* balances and all allowances are as before the call.
C8_TransferFromErrorNoChange ==
  \A c \in Accounts, from \in Accounts, to \in Accounts, amount \in Amounts :
    LET r == transfer_from(SimpleToken, c, from, to, amount) IN
    IsErr(r) => /\ r.st.balances = balances
                /\ r.st.allowances = allowances

\* C9 (as stated): while paused, every call to transfer, transfer_from and
\* batch_transfer returns an error and changes no balance.
C9_PausedEveryCallFails ==
  paused =>
    /\ \A c \in Accounts, to \in Accounts, amount \in Amounts :
         LET r == transfer(SimpleToken, c, to, amount) IN
         IsErr(r) /\ r.st.balances = balances
    /\ \A c \in Accounts, from \in Accounts, to \in Accounts, amount \in Amounts :
         LET r == transfer_from(SimpleToken, c, from, to, amount) IN
         IsErr(r) /\ r.st.balances = balances
    /\ \A c \in Accounts, recipients \in ShortRecipients,
         amounts \in ShortAmountVecs :
         LET r == batch_transfer(SimpleToken, c, recipients, amounts) IN
         IsErr(r) /\ r.st.balances = balances

\* C9 (amended): while paused, every call to transfer and transfer_from, and
\* every batch_transfer call except the one with two empty vectors, returns
\* an error; no call to any of the three changes the storage.
C9_PausedBlocksTransfers ==
  paused =>
    /\ \A c \in Accounts, to \in Accounts, amount \in Amounts :
         LET r == transfer(SimpleToken, c, to, amount) IN
         r.res = "Paused" /\ r.st = SimpleToken
    /\ \A c \in Accounts, from \in Accounts, to \in Accounts, amount \in Amounts :
         LET r == transfer_from(SimpleToken, c, from, to, amount) IN
         r.res \in {"Paused", "InsufficientAllowance"} /\ r.st = SimpleToken
    /\ \A c \in Accounts, recipients \in ShortRecipients,
         amounts \in ShortAmountVecs :
         LET r == batch_transfer(SimpleToken, c, recipients, amounts) IN
         /\ r.st = SimpleToken
         /\ (recipients = <<>> /\ amounts = <<>>) => r.res = "Ok"
         /\ ~(recipients = <<>> /\ amounts = <<>>) =>
              r.res \in {"Paused", "BatchLengthMismatch"}

\* A paused ledger in which a transfer_from that has the allowance, the
\* balance and clean endpoints is refused with Paused.
C9_Witness ==
  /\ paused
  /\ \E c \in Accounts, from \in Accounts, to \in Accounts, amount \in Amounts :
       /\ amount > 0
       /\ from # to
       /\ ~blacklist[from] /\ ~blacklist[to]
       /\ balances[from] >= amount
       /\ balances[to] + amount <= U128_MAX
       /\ allowances[<<from, c>>] >= amount
       /\ transfer_from(SimpleToken, c, from, to, amount).res = "Paused"

\* What C10 says of the three transfer messages: with a blacklisted endpoint
\* they fail and write nothing; a batch never completes a pair that has a
\* blacklisted endpoint and never changes a blacklisted account's balance.
BlacklistBlocksTransfers ==
  /\ \A from \in Accounts, to \in Accounts, amount \in Amounts :
       (blacklist[from] \/ blacklist[to]) =>
         LET r == transfer_from_to(SimpleToken, from, to, amount)
             t == transfer(SimpleToken, from, to, amount)
         IN /\ IsErr(r) /\ r.st = SimpleToken
            /\ IsErr(t) /\ t.st = SimpleToken
  /\ \A c \in Accounts, from \in Accounts, to \in Accounts, amount \in Amounts :
       (blacklist[from] \/ blacklist[to]) =>
         LET r == transfer_from(SimpleToken, c, from, to, amount) IN
         IsErr(r) /\ r.st = SimpleToken
  /\ \A c \in Accounts, recipients \in ShortRecipients,
         amounts \in ShortAmountVecs :
       LET r == batch_transfer(SimpleToken, c, recipients, amounts) IN
       /\ \A a \in Accounts : blacklist[a] => r.st.balances[a] = balances[a]
       /\ \A i \in 1..ZipLen(recipients, amounts) :
            (blacklist[c] \/ blacklist[recipients[i]]) =>
              IsErr(r) /\ r.done < i

\* C10 (as stated): no transfer step moves value out of or into a blacklisted
\* account, and a mint to a blacklisted account fails with Blacklisted.
C10_BlacklistBlocksMintBlacklisted ==
  /\ BlacklistBlocksTransfers
  /\ \A caller \in Accounts, to \in Accounts, amount \in Amounts :
       blacklist[to] =>
         mint(SimpleToken, caller, to, amount).res = "Blacklisted"

\* C10 (amended): no transfer step moves value out of or into a blacklisted
\* account, and a mint to a blacklisted account fails and writes nothing,
\* with Blacklisted when the caller is the owner and NotOwner otherwise.
C10_BlacklistBlocks ==
  /\ BlacklistBlocksTransfers
  /\ \A caller \in Accounts, to \in Accounts, amount \in Amounts :
       blacklist[to] =>
         LET r == mint(SimpleToken, caller, to, amount) IN
         /\ r.res = (IF caller = owner THEN "Blacklisted" ELSE "NotOwner")
         /\ r.st = SimpleToken

\* A transfer_from with allowance and balance whose recipient alone is
\* blacklisted is refused with Blacklisted.
C10_Witness ==
  /\ ~paused
  /\ \E c \in Accounts, from \in Accounts, to \in Accounts, amount \in Amounts :
       /\ amount > 0
       /\ from # to
       /\ ~blacklist[from] /\ blacklist[to]
       /\ balances[from] >= amount
       /\ allowances[<<from, c>>] >= amount
       /\ transfer_from(SimpleToken, c, from, to, amount).res = "Blacklisted"

\* C11: mint, pause, unpause and set_blacklist called by an account other
\* than the owner fail with NotOwner and leave the storage unchanged; no call
\* of any message by an account other than the owner changes the pause flag
\* or the blacklist or raises total_supply.
C11_OwnerOnly ==
  \A c \in Accounts \ {owner} :
    /\ \A to \in Accounts, amount \in Amounts :
         LET r == mint(SimpleToken, c, to, amount) IN
         r.res = "NotOwner" /\ r.st = SimpleToken
    /\ LET r == pause(SimpleToken, c) IN
       r.res = "NotOwner" /\ r.st = SimpleToken
    /\ LET r == unpause(SimpleToken, c) IN
       r.res = "NotOwner" /\ r.st = SimpleToken
    /\ \A account \in Accounts, blacklisted \in BOOLEAN :
         LET r == set_blacklist(SimpleToken, c, account, blacklisted) IN
         r.res = "NotOwner" /\ r.st = SimpleToken
    /\ LET P(r) == /\ r.st.paused = paused
                    /\ r.st.blacklist = blacklist
                    /\ r.st.total_supply <= total_supply
                    /\ r.st.owner = owner
       IN /\ \A amount \in Amounts : P(burn(SimpleToken, c, amount))
          /\ \A to \in Accounts, amount \in Amounts :
               P(transfer(SimpleToken, c, to, amount))
          /\ \A spender \in Accounts, amount \in Amounts :
               P(approve(SimpleToken, c, spender, amount))
          /\ \A from \in Accounts, to \in Accounts, amount \in Amounts :
               P(transfer_from(SimpleToken, c, from, to, amount))
          /\ \A recipients \in ShortRecipients, amounts \in ShortAmountVecs :
               P(batch_transfer(SimpleToken, c, recipients, amounts))

\* An account that is not the owner, is not blacklisted and holds a balance
\* is refused by mint and by unpause on a paused ledger.
C11_Witness ==
  /\ calls < MaxCalls
  /\ paused
  /\ \E c \in Accounts \ {owner} :
       /\ ~blacklist[c]
       /\ balances[c] > 0
       /\ mint(SimpleToken, c, c, 0).res = "NotOwner"
       /\ unpause(SimpleToken, c).res = "NotOwner"

\* C12: approve overwrites: after approve(s, n) and then approve(s, m) by the
\* same caller o, allowance[(o, s)] is m; approve always succeeds, whatever
\* the caller's balance, the pause flag and the blacklist, and changes no
\* balance and no other allowance.
C12_ApproveOverwrites ==
  \A o \in Accounts, s \in Accounts, n \in Amounts, m \in Amounts :
    LET r1 == approve(SimpleToken, o, s, n)
        r2 == approve(r1.st, o, s, m)
    IN /\ r1.res = "Ok"
       /\ r1.st = [SimpleToken EXCEPT !.allowances[<<o, s>>] = n]
       /\ r2.res = "Ok"
       /\ r2.st = [SimpleToken EXCEPT !.allowances[<<o, s>>] = m]

\* On a paused ledger an account without balance that already granted a
\* positive allowance approves the same spender again, for zero.
C12_Witness ==
  /\ calls < MaxCalls
  /\ paused
  /\ \E o \in Accounts, s \in Accounts :
       /\ balances[o] = 0
       /\ allowances[<<o, s>>] > 0
       /\ approve(SimpleToken, o, s, 0).res = "Ok"
       /\ approve(SimpleToken, o, s, 0).st.allowances[<<o, s>>] = 0

\* C13: allowance[(o, s)] changes only through approve(s, _) called by o,
\* which sets it, and through a successful transfer_from(o, _, amount)
\* called by s, which lowers it by amount; every other call leaves it as it
\* was.
C13_AllowanceFrame ==
  /\ \A c \in Accounts :
       LET P(r) == r.st.allowances = allowances
       IN /\ \A to \in Accounts, amount \in Amounts :
               P(mint(SimpleToken, c, to, amount))
          /\ \A amount \in Amounts : P(burn(SimpleToken, c, amount))
          /\ \A to \in Accounts, amount \in Amounts :
               P(transfer(SimpleToken, c, to, amount))
          /\ \A recipients \in ShortRecipients, amounts \in ShortAmountVecs :
               P(batch_transfer(SimpleToken, c, recipients, amounts))
          /\ P(pause(SimpleToken, c)) /\ P(unpause(SimpleToken, c))
          /\ \A account \in Accounts, blacklisted \in BOOLEAN :
               P(set_blacklist(SimpleToken, c, account, blacklisted))
  /\ \A c \in Accounts, spender \in Accounts, amount \in Amounts :
       approve(SimpleToken, c, spender, amount).st.allowances =
         [p \in Accounts \X Accounts |->
            IF p = <<c, spender>> THEN amount ELSE allowances[p]]
  /\ \A c \in Accounts, from \in Accounts, to \in Accounts, amount \in Amounts :
       LET r == transfer_from(SimpleToken, c, from, to, amount) IN
       r.st.allowances =
         [p \in Accounts \X Accounts |->
            IF r.res = "Ok" /\ p = <<from, c>> THEN allowances[p] - amount
            ELSE allowances[p]]

\* Two positive allowances of different owners, of which a transfer_from by
\* the spender of one can lower its own only.
C13_Witness ==
  \E o \in Accounts, s \in Accounts, to \in Accounts, p \in Accounts \X Accounts :
    /\ o # s
    /\ p # <<o, s>>
    /\ allowances[p] > 0
    /\ allowances[<<o, s>>] > 0
    /\ transfer_from(SimpleToken, s, o, to, 1).res = "Ok"

\* C14: pause does not gate mint or burn: while paused, a mint by the owner
\* to a non-blacklisted account without overflow succeeds and raises
\* balance[to] and total_supply by amount, and a burn by any caller whose
\* balance is at least amount succeeds and lowers that balance and
\* total_supply by amount.
C14_PauseDoesNotGateMintBurn ==
  paused =>
    /\ \A to \in Accounts, amount \in Amounts :
         ( /\ ~blacklist[to]
           /\ balances[to] + amount <= U128_MAX
           /\ total_supply + amount <= U128_MAX ) =>
           LET r == mint(SimpleToken, owner, to, amount) IN
           /\ r.res = "Ok"
           /\ r.st.balances[to] = balances[to] + amount
           /\ r.st.total_supply = total_supply + amount
    /\ \A c \in Accounts, amount \in Amounts :
         balances[c] >= amount =>
           LET r == burn(SimpleToken, c, amount) IN
           /\ r.res = "Ok"
           /\ r.st.balances[c] = balances[c] - amount
           /\ r.st.total_supply = total_supply - amount

\* C15: a successful transfer(to, amount) by caller c lowers balance[c] by
\* amount, raises balance[to] by amount and leaves everything else as it
\* was; no message other than mint and burn changes total_supply.
C15_TransferEffect ==
  /\ \A c \in Accounts, to \in Accounts, amount \in Amounts :
       LET r == transfer(SimpleToken, c, to, amount) IN
       r.res = "Ok" =>
         /\ c # to
         /\ r.st =
              [SimpleToken EXCEPT
                 !.balances = [a \in Accounts |->
                                 IF a = c THEN balances[a] - amount
                                 ELSE IF a = to THEN balances[a] + amount
                                 ELSE balances[a]]]
  /\ \A c \in Accounts :
       LET P(r) == r.st.total_supply = total_supply
       IN /\ \A to \in Accounts, amount \in Amounts :
               P(transfer(SimpleToken, c, to, amount))
          /\ \A spender \in Accounts, amount \in Amounts :
               P(approve(SimpleToken, c, spender, amount))
          /\ \A from \in Accounts, to \in Accounts, amount \in Amounts :
               P(transfer_from(SimpleToken, c, from, to, amount))
          /\ \A recipients \in ShortRecipients, amounts \in ShortAmountVecs :
               P(batch_transfer(SimpleToken, c, recipients, amounts))
          /\ P(pause(SimpleToken, c)) /\ P(unpause(SimpleToken, c))
          /\ \A account \in Accounts, blacklisted \in BOOLEAN :
               P(set_blacklist(SimpleToken, c, account, blacklisted))

\* A holder sends a positive amount to another account while a third
\* allowance-holding pair exists.
C15_Witness ==
  /\ calls < MaxCalls
  /\ \E c \in Accounts, to \in Accounts :
       /\ c # to
       /\ balances[c] > 0
       /\ \E p \in Accounts \X Accounts : allowances[p] > 0
       /\ transfer(SimpleToken, c, to, balances[c]).res = "Ok"

\* C16: pause and unpause change only the pause flag: after the owner pauses
\* and then unpauses, the rest of the storage is as before, and a transfer
\* that would have succeeded before the pause fails with Paused while paused
\* and succeeds with the same effect when repeated after the unpause.
C16_PauseUnpause ==
  LET p == pause(SimpleToken, owner)
      u == unpause(p.st, owner)
  IN /\ p.res = "Ok"
     /\ p.st = [SimpleToken EXCEPT !.paused = TRUE]
     /\ u.res = "Ok"
     /\ u.st = [SimpleToken EXCEPT !.paused = FALSE]
     /\ unpause(SimpleToken, owner).st = [SimpleToken EXCEPT !.paused = FALSE]
     /\ \A c \in Accounts, to \in Accounts, amount \in Amounts :
          LET t == transfer(SimpleToken, c, to, amount) IN
          t.res = "Ok" =>
            /\ transfer(p.st, c, to, amount).res = "Paused"
            /\ transfer(p.st, c, to, amount).st = p.st
            /\ transfer(u.st, c, to, amount) = t

\* An unpaused ledger on which a transfer of a positive amount succeeds and
\* is refused with Paused once the owner has paused.
C16_Witness ==
  /\ calls < MaxCalls
  /\ ~paused
  /\ \E c \in Accounts, to \in Accounts :
       /\ balances[c] > 0
       /\ transfer(SimpleToken, c, to, balances[c]).res = "Ok"
       /\ transfer(pause(SimpleToken, owner).st, c, to, balances[c]).res = "Paused"

\* C17: Overflow is returned by mint only: no call to transfer,
\* transfer_from, batch_transfer or burn returns Overflow, each balance being
\* at most total_supply.
C17_OverflowOnlyFromMint ==
  /\ \A a \in Accounts : balances[a] <= total_supply
  /\ \A c \in Accounts :
       LET P(r) == r.res # "Overflow"
       IN /\ \A to \in Accounts, amount \in Amounts :
               P(transfer(SimpleToken, c, to, amount))
          /\ \A from \in Accounts, to \in Accounts, amount \in Amounts :
               P(transfer_from(SimpleToken, c, from, to, amount))
          /\ \A recipients \in ShortRecipients, amounts \in ShortAmountVecs :
               P(batch_transfer(SimpleToken, c, recipients, amounts))
          /\ \A amount \in Amounts : P(burn(SimpleToken, c, amount))

\* Sum of a vector of amounts.
RECURSIVE SumSeq(_)
SumSeq(amounts) ==
  IF amounts = <<>> THEN 0 ELSE Head(amounts) + SumSeq(Tail(amounts))

\* Sum of the amounts whose recipient is account a.
RECURSIVE SumTo(_, _, _)
SumTo(recipients, amounts, a) ==
  IF recipients = <<>> \/ amounts = <<>> THEN 0
  ELSE (IF Head(recipients) = a THEN Head(amounts) ELSE 0)
       + SumTo(Tail(recipients), Tail(amounts), a)

C19_CallerBlacklistIgnored ==
  \A c \in Accounts :
    blacklist[c] =>
      LET clean == [SimpleToken EXCEPT !.blacklist[c] = FALSE]
          Same(r, q) ==
            /\ r.res = q.res
            /\ r.st = [q.st EXCEPT !.blacklist[c] = TRUE]
      IN
      /\ \A from \in Accounts \ {c}, to \in Accounts \ {c}, amount \in Amounts :
           LET r == transfer_from(SimpleToken, c, from, to, amount) IN
           /\ Same(r, transfer_from(clean, c, from, to, amount))
           /\ ( /\ ~paused /\ from # to
                /\ ~blacklist[from] /\ ~blacklist[to]
                /\ allowances[<<from, c>>] >= amount
                /\ balances[from] >= amount
                /\ balances[to] + amount <= U128_MAX ) =>
                /\ r.res = "Ok"
                /\ r.st.balances[to] = balances[to] + amount
      /\ \A spender \in Accounts, amount \in Amounts :
           LET r == approve(SimpleToken, c, spender, amount) IN
           /\ r.res = "Ok"
           /\ r.st.allowances[<<c, spender>>] = amount
           /\ Same(r, approve(clean, c, spender, amount))
      /\ \A amount \in Amounts :
           LET r == burn(SimpleToken, c, amount) IN
           /\ Same(r, burn(clean, c, amount))
           /\ (balances[c] >= amount /\ total_supply >= amount) =>
                /\ r.res = "Ok"
                /\ r.st.balances[c] = balances[c] - amount
                /\ r.st.total_supply = total_supply - amount

\* A blacklisted spender moves a positive amount between two other accounts.
C19_Witness ==
  /\ ~paused
  /\ \E c \in Accounts, from \in Accounts, to \in Accounts :
       /\ blacklist[c]
       /\ c # from /\ c # to
       /\ ~blacklist[from] /\ ~blacklist[to]
       /\ balances[from] > 0
       /\ transfer_from(SimpleToken, c, from, to, 1).res = "Ok"

====
